---- MODULE Spec2Model ----
(***************************************************************************)
(* Model of src/index.ts: the GitLogger class (getCommits,                 *)
(* printCommitHistory, applyToRepo) and the command-line dispatch.         *)
(*                                                                         *)
(* Every `await` of an external simple-git call is one position of the     *)
(* program (pc).  An action settles the call that is outstanding, with one *)
(* of the outcomes the call can have, and runs the synchronous code that   *)
(* follows it up to and including the issue of the next awaited call.      *)
(* cmds is the trace of the external calls issued, results the trace of    *)
(* their outcomes, out the lines written to the console.                   *)
(***************************************************************************)
EXTENDS Integers, Sequences, FiniteSets, TLC

VARIABLES
    entry,       \* "cli": started from the command line; "call": applyToRepo called with an ApplyOptions value
    mode,        \* "apply" when options.apply is set, "print" otherwise
    input,       \* the author/email/committer/committerEmail values supplied by the caller
    repoLog,     \* what the source repository's log holds (newest first)
    pc,          \* position of the program: the call it is awaiting
    options,     \* the ApplyOptions value applyToRepo works on
    env,         \* applyToRepo's local env map
    logAll,      \* getCommits' local log.all
    gcCommits,   \* getCommits' local commits array
    commits,     \* the caller's commits (the value getCommits resolved to)
    k,           \* index in commits of the commit the replay loop is at (0: loop not entered)
    cmds,        \* external calls issued so far
    cmds2,       \* external calls issued by the same run with the committer options left out
    results,     \* outcomes of the settled external calls, results[j] for cmds[j]
    inflight,    \* indexes in cmds of the calls issued and not settled
    applied,     \* hashes of the commits the target repository has taken
    out,         \* console lines
    gcPromise,   \* state of the promise getCommits returned
    topPromise,  \* state of the promise applyToRepo / printCommitHistory returned
    exitCode     \* process exit status, -1 while running

vars == <<entry, mode, input, repoLog, pc, options, env, logAll, gcCommits,
          commits, k, cmds, cmds2, results, inflight, applied, out,
          gcPromise, topPromise, exitCode>>

----------------------------------------------------------------------------
(* Bounds and input domains *)

MaxCommits == 2

HashNames == <<"h1", "h2", "h3", "h4">>

Hashes == {HashNames[n] : n \in 1..MaxCommits}

Undefined == "undefined"

AuthorValues == {Undefined, "", "Ann"}

EmailValues == {Undefined, "", "ann@x"}

CommitterValues == {Undefined, "", "Cy"}

CommitterEmailValues == {Undefined, "", "cy@x"}

NoValue == <<>>

\* one entry of log.all
LogEntry(h) ==
    [hash |-> h, author_name |-> <<"author", h>>, date |-> <<"date", h>>,
     message |-> <<"message", h>>]

\* what `git show <hash>` prints for the source repository
RepoDiff(h) == <<"diff", h>>

RECURSIVE InjectiveSeqs(_, _)
InjectiveSeqs(S, n) ==
    IF n = 0 THEN {<<>>}
    ELSE LET shorter == InjectiveSeqs(S, n - 1)
         IN  shorter \cup
             {Append(s, x) : <<s, x>> \in
                 {p \in shorter \X S :
                     /\ Len(p[1]) = n - 1
                     /\ \A i \in 1..Len(p[1]) : p[1][i] # p[2]}}

RepoLogs ==
    {[i \in 1..Len(s) |-> LogEntry(s[i])] : s \in InjectiveSeqs(Hashes, MaxCommits)}

Inputs ==
    [author : AuthorValues, email : EmailValues,
     committer : CommitterValues, committerEmail : CommitterEmailValues]

NoInput ==
    [author |-> Undefined, email |-> Undefined,
     committer |-> Undefined, committerEmail |-> Undefined]

----------------------------------------------------------------------------
(* Pure parts of the code *)

\* JavaScript truthiness of an optional string
Truthy(v) == v # Undefined /\ v # ""

NoOptions ==
    [newAuthor |-> Undefined, newEmail |-> Undefined,
     newCommitter |-> Undefined, newCommitterEmail |-> Undefined]

\* index.ts 180-188
CliDispatch(o) ==
    [newAuthor         |-> IF Truthy(o.author) /\ Truthy(o.email)
                           THEN o.author ELSE Undefined,
     newEmail          |-> IF Truthy(o.author) /\ Truthy(o.email)
                           THEN o.email ELSE Undefined,
     newCommitter      |-> IF Truthy(o.committer) /\ Truthy(o.committerEmail)
                           THEN o.committer ELSE Undefined,
     newCommitterEmail |-> IF Truthy(o.committer) /\ Truthy(o.committerEmail)
                           THEN o.committerEmail ELSE Undefined]

\* applyToRepo called with the value itself
PassedOptions(o) ==
    [newAuthor |-> o.author, newEmail |-> o.email,
     newCommitter |-> o.committer, newCommitterEmail |-> o.committerEmail]

EraseCommitter(opts) ==
    [opts EXCEPT !.newCommitter = Undefined, !.newCommitterEmail = Undefined]

\* index.ts 104-108
CommitterEnv(opts) ==
    IF Truthy(opts.newCommitter) /\ Truthy(opts.newCommitterEmail)
    THEN <<opts.newCommitter, opts.newCommitterEmail>>
    ELSE NoValue

RawEnvPassed(e) == e

\* index.ts 137: the env map is not handed to the call
RawEnv(e) == NoValue

AmAuthorNameOnly(opts) ==
    IF Truthy(opts.newAuthor)
    THEN <<opts.newAuthor, opts.newEmail>>
    ELSE NoValue

\* index.ts 129-131: the --author argument of the am call
AmAuthor(opts) ==
    IF Truthy(opts.newAuthor) /\ Truthy(opts.newEmail)
    THEN <<opts.newAuthor, opts.newEmail>>
    ELSE NoValue

AmFlags ==
    <<"--committer-date-is-author-date", "--ignore-space-change",
      "--ignore-whitespace", "--3way">>

FormatPatchFlags ==
    <<"--stdout", "-1", "--full-index", "--binary", "--date-order", "-o">>

Cmd(repo, op, flags, author, hash, e) ==
    [repo |-> repo, op |-> op, flags |-> flags, author |-> author,
     hash |-> hash, env |-> e]

CheckIsRepoCmd(repo) == Cmd(repo, "checkIsRepo", <<>>, NoValue, "", NoValue)

LogCmd == Cmd("source", "log", <<>>, NoValue, "", NoValue)

ShowCmd(h) == Cmd("source", "show", <<>>, NoValue, h, NoValue)

\* index.ts 115-118
FormatPatchCmd(h) == Cmd("source", "format-patch", FormatPatchFlags, NoValue, h, NoValue)

\* index.ts 121-137
AmCmd(opts, h) == Cmd("target", "am", AmFlags, AmAuthor(opts), h, RawEnv(CommitterEnv(opts)))

\* index.ts 140
CleanCmd(h) == Cmd("target", "clean", <<"-f">>, NoValue, h, NoValue)

\* index.ts 152
AbortCmd == Cmd("target", "abort", <<"am", "--abort">>, NoValue, "", NoValue)

CommitRecordSwapped(e, diff) ==
    [hash |-> e.hash, author |-> e.message, date |-> e.date,
     message |-> e.author_name, diff |-> diff]

\* index.ts 49-55
CommitRecord(e, diff) ==
    [hash |-> e.hash, author |-> e.author_name, date |-> e.date,
     message |-> e.message, diff |-> diff]

CatchResultPartial(partial) == partial

\* index.ts 59-62: the catch of getCommits returns []
CatchResult(partial) == <<>>

StepNeverThrows(r) == FALSE

\* index.ts 113/149: a rejected call inside the try block enters the catch
StepThrows(r) == r = "throw"

TargetAlwaysProceeds(r) == r # "throw"

\* index.ts 97-101: the loop is reached only when checkIsRepo gave true
TargetProceeds(r) == r = "true"

ExitStatusIgnoringRejection(tp) == IF tp = "rejected" THEN 0 ELSE 0

\* index.ts 190-193, 195-198: process.exit(1) in the catch of the top-level
\* promise; a run that ends without it ends with status 0
ExitStatus(tp) == IF tp = "rejected" THEN 1 ELSE 0

Line(kind, hash, author, committer, date) ==
    [kind |-> kind, hash |-> hash, author |-> author,
     committer |-> committer, date |-> date]

Msg(kind) == Line(kind, "", NoValue, NoValue, NoValue)

\* index.ts 142-148
SuccessLine(opts, c) ==
    Line("success", c.hash,
         IF Truthy(opts.newAuthor) THEN <<"new author", opts.newAuthor>>
                                   ELSE <<"original author", c.author>>,
         IF Truthy(opts.newCommitter) THEN <<"new committer", opts.newCommitter>>
                                      ELSE <<"original committer">>,
         c.date)

\* index.ts 150
FailedLine(c) == Line("failed", c.hash, NoValue, NoValue, c.date)

\* index.ts 136
ApplyingLine(c) == Line("applying", c.hash, NoValue, NoValue, c.date)

\* index.ts 68-84
PrintLines(cs) ==
    <<Msg("header")>> \o
    (IF Len(cs) = 0 THEN <<Msg("no-commits-found")>>
     ELSE [i \in 1..Len(cs) |->
              Line("commit", cs[i].hash, <<"author", cs[i].author>>, NoValue, cs[i].date)])

Result(status, value) == [status |-> status, value |-> value]

----------------------------------------------------------------------------
(* Control helpers *)

\* settle the outstanding call with result r, write the console lines o, issue
\* the calls in iss (iss2 for the run without committer options), move to p
Ctl(p, r, o, iss, iss2, tp, ec) ==
    /\ pc' = p
    /\ results' = results \o r
    /\ out' = o
    /\ cmds' = cmds \o iss
    /\ cmds2' = cmds2 \o iss2
    /\ inflight' = (inflight \ {Len(cmds)}) \cup {Len(cmds) + j : j \in 1..Len(iss)}
    /\ topPromise' = tp
    /\ exitCode' = ec

Await(p, r, o, c, c2) == Ctl(p, r, o, <<c>>, <<c2>>, topPromise, exitCode)

\* the top-level promise resolves: nothing is left to run, the process ends with status 0
TopResolve(r, o) == Ctl("exited", r, o, <<>>, <<>>, "fulfilled", ExitStatus("fulfilled"))

\* index.ts 190-193, 195-198: the top-level promise rejects
TopReject(r, o) ==
    Ctl("exited", r, Append(o, Msg("top-level-error")), <<>>, <<>>,
        "rejected", ExitStatus("rejected"))

\* index.ts 112, 154-155: the for loop moves to the next commit or ends
NextCommit(r, o) ==
    IF k < Len(commits)
    THEN /\ k' = k + 1
         /\ Await("format_patch", r, o,
                  FormatPatchCmd(commits[k + 1].hash), FormatPatchCmd(commits[k + 1].hash))
    ELSE /\ k' = k
         /\ TopResolve(r, o)

\* index.ts 149-153: the catch block of the loop body
CatchStep(r) ==
    /\ k' = k
    /\ Await("abort", r, Append(out, FailedLine(commits[k])), AbortCmd, AbortCmd)

\* getCommits resolves to cs; the caller resumes: index.ts 66-85 (print), 88-97 (apply)
GcReturn(r, o, cs) ==
    /\ gcPromise' = "fulfilled"
    /\ commits' = cs
    /\ IF mode = "print"
       THEN TopResolve(r, o \o PrintLines(cs))
       ELSE IF Len(cs) = 0
            THEN TopResolve(r, Append(o, Msg("no-commits-to-apply")))
            ELSE Await("target_check", r, o,
                       CheckIsRepoCmd("target"), CheckIsRepoCmd("target"))

----------------------------------------------------------------------------
(* Initial state and actions *)

Init ==
    /\ entry \in {"cli", "call"}
    /\ mode \in {"print", "apply"}
    /\ input \in Inputs
    /\ entry = "call" => mode = "apply"
    /\ mode = "print" => input = NoInput
    /\ repoLog \in RepoLogs
    /\ pc = "start"
    /\ options = NoOptions
    /\ env = NoValue
    /\ logAll = <<>>
    /\ gcCommits = <<>>
    /\ commits = <<>>
    /\ k = 0
    /\ cmds = <<>>
    /\ cmds2 = <<>>
    /\ results = <<>>
    /\ inflight = {}
    /\ applied = <<>>
    /\ out = <<>>
    /\ gcPromise = "none"
    /\ topPromise = "none"
    /\ exitCode = -1

\* index.ts 172-199, 26-30, 65-66 / 87-88, 32-35: construct the GitLogger,
\* dispatch on options.apply, enter getCommits up to its first await
Start ==
    /\ pc = "start"
    /\ \E ctorOk \in BOOLEAN :
        IF ctorOk
        THEN /\ options' = IF entry = "cli" THEN CliDispatch(input) ELSE PassedOptions(input)
             /\ gcPromise' = "pending"
             /\ Ctl("check_is_repo", <<>>, out, <<CheckIsRepoCmd("source")>>,
                    <<CheckIsRepoCmd("source")>>, "pending", exitCode)
        ELSE \* simpleGit(repoPath) throws outside every handler
             /\ Ctl("exited", <<>>, Append(out, Msg("uncaught-error")), <<>>, <<>>,
                    topPromise, 1)
             /\ UNCHANGED <<options, gcPromise>>
    /\ UNCHANGED <<entry, mode, input, repoLog, env, logAll, gcCommits, commits, k, applied>>

\* index.ts 35-42, 59-62
CheckIsRepoSettle ==
    /\ pc = "check_is_repo"
    /\ \E r \in {"true", "false", "throw"} :
        CASE r = "true" ->
                /\ Await("log", <<Result(r, NoValue)>>, out, LogCmd, LogCmd)
                /\ UNCHANGED <<gcPromise, commits>>
          [] r = "false" ->
                GcReturn(<<Result(r, NoValue)>>, Append(out, Msg("not-a-repository")), <<>>)
          [] r = "throw" ->
                GcReturn(<<Result(r, NoValue)>>, Append(out, Msg("read-error")),
                         CatchResult(gcCommits))
    /\ UNCHANGED <<entry, mode, input, repoLog, options, env, logAll, gcCommits, k, applied>>

\* index.ts 42-47, 58, 59-62
LogSettle ==
    /\ pc = "log"
    /\ \E r \in {"ok", "throw"} :
        IF r = "ok"
        THEN /\ logAll' = repoLog
             /\ IF Len(repoLog) = 0
                THEN GcReturn(<<Result(r, repoLog)>>, out, gcCommits)
                ELSE /\ Await("show", <<Result(r, repoLog)>>, out,
                              ShowCmd(repoLog[1].hash), ShowCmd(repoLog[1].hash))
                     /\ UNCHANGED <<gcPromise, commits>>
        ELSE /\ logAll' = logAll
             /\ GcReturn(<<Result(r, NoValue)>>, Append(out, Msg("read-error")),
                         CatchResult(gcCommits))
    /\ UNCHANGED <<entry, mode, input, repoLog, options, env, gcCommits, k, applied>>

\* index.ts 45-58, 59-62
ShowSettle ==
    /\ pc = "show"
    /\ \E r \in {"ok", "throw"} :
        LET e    == logAll[Len(gcCommits) + 1]
            diff == RepoDiff(e.hash)
            cs   == Append(gcCommits, CommitRecord(e, diff))
        IN  IF r = "ok"
            THEN /\ gcCommits' = cs
                 /\ IF Len(cs) = Len(logAll)
                    THEN GcReturn(<<Result(r, diff)>>, out, cs)
                    ELSE /\ Await("show", <<Result(r, diff)>>, out,
                                  ShowCmd(logAll[Len(cs) + 1].hash),
                                  ShowCmd(logAll[Len(cs) + 1].hash))
                         /\ UNCHANGED <<gcPromise, commits>>
            ELSE /\ gcCommits' = gcCommits
                 /\ GcReturn(<<Result(r, NoValue)>>, Append(out, Msg("read-error")),
                             CatchResult(gcCommits))
    /\ UNCHANGED <<entry, mode, input, repoLog, options, env, logAll, k, applied>>

\* index.ts 94-118: simpleGit(targetRepoPath) and checkIsRepo, the env map, the
\* first iteration up to format-patch
TargetCheckSettle ==
    /\ pc = "target_check"
    /\ \E r \in {"true", "false", "throw"} :
        IF r = "throw"
        THEN /\ TopReject(<<Result(r, NoValue)>>, out)
             /\ UNCHANGED <<env, k>>
        ELSE IF TargetProceeds(r)
        THEN /\ env' = CommitterEnv(options)
             /\ k' = 1
             /\ Await("format_patch", <<Result(r, NoValue)>>,
                      Append(out, Msg("applying-commits")),
                      FormatPatchCmd(commits[1].hash), FormatPatchCmd(commits[1].hash))
        ELSE /\ TopResolve(<<Result(r, NoValue)>>, Append(out, Msg("target-not-a-repository")))
             /\ UNCHANGED <<env, k>>
    /\ UNCHANGED <<entry, mode, input, repoLog, options, logAll, gcCommits, commits,
                   applied, gcPromise>>

\* index.ts 116-137, 149-153
FormatPatchSettle ==
    /\ pc = "format_patch"
    /\ \E r \in {"ok", "throw"} :
        IF StepThrows(r)
        THEN CatchStep(<<Result(r, NoValue)>>)
        ELSE /\ k' = k
             /\ Await("am", <<Result(r, NoValue)>>, Append(out, ApplyingLine(commits[k])),
                      AmCmd(options, commits[k].hash),
                      AmCmd(EraseCommitter(options), commits[k].hash))
    /\ UNCHANGED <<entry, mode, input, repoLog, options, env, logAll, gcCommits, commits,
                   applied, gcPromise>>

\* index.ts 137-140, 149-153
AmSettle ==
    /\ pc = "am"
    /\ \E r \in {"ok", "throw"} :
        /\ applied' = IF r = "ok" THEN Append(applied, commits[k].hash) ELSE applied
        /\ IF StepThrows(r)
           THEN CatchStep(<<Result(r, NoValue)>>)
           ELSE /\ k' = k
                /\ Await("clean", <<Result(r, NoValue)>>, out,
                         CleanCmd(commits[k].hash), CleanCmd(commits[k].hash))
    /\ UNCHANGED <<entry, mode, input, repoLog, options, env, logAll, gcCommits, commits,
                   gcPromise>>

\* index.ts 140-148, 112, 149-153
CleanSettle ==
    /\ pc = "clean"
    /\ \E r \in {"ok", "throw"} :
        IF StepThrows(r)
        THEN CatchStep(<<Result(r, NoValue)>>)
        ELSE NextCommit(<<Result(r, NoValue)>>, Append(out, SuccessLine(options, commits[k])))
    /\ UNCHANGED <<entry, mode, input, repoLog, options, env, logAll, gcCommits, commits,
                   applied, gcPromise>>

\* index.ts 152, 112: the abort call is awaited inside the catch block, outside any try
AbortSettle ==
    /\ pc = "abort"
    /\ \E r \in {"ok", "throw"} :
        IF r = "ok"
        THEN NextCommit(<<Result(r, NoValue)>>, out)
        ELSE /\ k' = k
             /\ TopReject(<<Result(r, NoValue)>>, out)
    /\ UNCHANGED <<entry, mode, input, repoLog, options, env, logAll, gcCommits, commits,
                   applied, gcPromise>>

Next ==
    \/ Start
    \/ CheckIsRepoSettle
    \/ LogSettle
    \/ ShowSettle
    \/ TargetCheckSettle
    \/ FormatPatchSettle
    \/ AmSettle
    \/ CleanSettle
    \/ AbortSettle

Spec == Init /\ [][Next]_vars

----------------------------------------------------------------------------
(* Vocabulary of the properties *)

StepOps == {"format-patch", "am", "clean"}

ReadOps == {"checkIsRepo", "log", "show"}

\* the settled calls getCommits made
ReadIdx == {j \in 1..Len(results) : cmds[j].repo = "source" /\ cmds[j].op \in ReadOps}

ReadFailed == \E j \in ReadIdx : results[j].status \in {"false", "throw"}

HistoryUnreadable == \E j \in ReadIdx : results[j].status = "throw"

CtorThrew == pc = "exited" /\ topPromise = "none"

Threw(op) == \E j \in 1..Len(results) : cmds[j].op = op /\ results[j].status = "throw"

TargetCheckResult(r) ==
    \E j \in 1..Len(results) : cmds[j] = CheckIsRepoCmd("target") /\ results[j].status = r

FormatPatches == SelectSeq(cmds, LAMBDA c : c.op = "format-patch")

----------------------------------------------------------------------------
(* Properties *)

\* C1: a failure while processing a commit is not fatal to the replay: once
\* the loop was entered, the run ends with applyToRepo resolved and with a
\* patch generated for every commit getCommits returned, whatever the
\* outcomes of the format-patch, am, clean and abort calls were.
C1_FailureIsolation ==
    (pc = "exited" /\ k >= 1) =>
        /\ topPromise = "fulfilled"
        /\ \A i \in 1..Len(commits) :
              \E j \in 1..Len(cmds) : cmds[j] = FormatPatchCmd(commits[i].hash)

\* C2: when checkIsRepo, log and every show succeeded, getCommits resolves
\* to one record per log entry, in the order of the log, the i-th record
\* carrying the i-th entry's hash, author, date and message and the result
\* of the show call issued for that hash.
C2_GetCommitsComplete ==
    (gcPromise = "fulfilled" /\ ~ReadFailed) =>
        LET lg == results[2].value
        IN  /\ cmds[2] = LogCmd
            /\ Len(commits) = Len(lg)
            /\ \A i \in 1..Len(lg) :
                  /\ commits[i].hash = lg[i].hash
                  /\ commits[i].author = lg[i].author_name
                  /\ commits[i].date = lg[i].date
                  /\ commits[i].message = lg[i].message
                  /\ cmds[2 + i] = ShowCmd(lg[i].hash)
                  /\ commits[i].diff = results[2 + i].value

C2_Witness ==
    /\ gcPromise = "fulfilled"
    /\ ~ReadFailed
    /\ Len(commits) >= 2
    /\ commits[1].hash # commits[2].hash

\* C3: getCommits never rejects, and when the repository check said no or
\* any of its calls threw it resolves to the empty sequence, also when
\* records had been collected before the failing show call.
C3_AllOrNothing ==
    /\ gcPromise # "rejected"
    /\ (gcPromise = "fulfilled" /\ ReadFailed) => commits = <<>>
    /\ (pc = "exited" /\ ReadFailed) => topPromise = "fulfilled"

C3_Witness ==
    /\ gcPromise = "fulfilled"
    /\ \E j \in ReadIdx :
          /\ j >= 4
          /\ cmds[j].op = "show"
          /\ results[j].status = "throw"
          /\ results[j - 1].status = "ok"

\* C4 (as claimed): the process ends with a non-zero status exactly when the
\* source history could not be read or the replay could not be completed.
C4_ExitStatusAsClaimed ==
    pc = "exited" =>
        (exitCode # 0 <=> (CtorThrew \/ HistoryUnreadable \/ topPromise = "rejected"))

\* C4 (amended): the process ends with status 1 and an error line exactly
\* when an exception escapes to the top level, that is when the GitLogger
\* cannot be constructed or, in replay mode, when the target repository
\* check or an abort call throws; a failure of getCommits' own calls is
\* caught and the process ends with status 0, as does every other run.
C4_ExitStatus ==
    pc = "exited" =>
        /\ exitCode \in {0, 1}
        /\ exitCode = 1 <=> (CtorThrew \/ topPromise = "rejected")
        /\ topPromise = "rejected" <=>
              (mode = "apply" /\ (TargetCheckResult("throw") \/ Threw("abort")))
        /\ exitCode = 1 =>
              out[Len(out)].kind \in {"top-level-error", "uncaught-error"}
        /\ HistoryUnreadable => exitCode = 0
        /\ (mode = "print" /\ ~CtorThrew) => exitCode = 0

C4_Witness ==
    /\ pc = "exited"
    /\ topPromise = "rejected"
    /\ exitCode = 1

\* C5: when getCommits gave no commits applyToRepo issues no call on the
\* target repository, and when the target is not a repository it generates
\* no patch and issues no am, clean or abort call; in both cases it logs
\* the condition and resolves.
C5_ShortCircuit ==
    /\ (mode = "apply" /\ gcPromise = "fulfilled" /\ commits = <<>>) =>
          /\ \A j \in 1..Len(cmds) : cmds[j].repo # "target"
          /\ pc = "exited"
          /\ topPromise = "fulfilled"
          /\ exitCode = 0
          /\ out[Len(out)] = Msg("no-commits-to-apply")
    /\ TargetCheckResult("false") =>
          /\ \A j \in 1..Len(cmds) : cmds[j].op \notin StepOps \cup {"abort"}
          /\ pc = "exited"
          /\ topPromise = "fulfilled"
          /\ exitCode = 0
          /\ out[Len(out)] = Msg("target-not-a-repository")

C5_Witness ==
    /\ TargetCheckResult("false")
    /\ pc = "exited"
    /\ Len(commits) >= 1

\* C6: a format-patch, am or clean call that throws is followed at once by
\* exactly one abort call on the target, before the next commit's
\* format-patch; an abort call is issued only after such a failure; no
\* commit gets a second format-patch or am call.
C6_AbortPolicy ==
    /\ \A j \in 1..Len(results) :
          (cmds[j].op \in StepOps /\ results[j].status = "throw") =>
              /\ j + 1 <= Len(cmds)
              /\ cmds[j + 1] = AbortCmd
              /\ j + 2 <= Len(cmds) =>
                    /\ cmds[j + 2].op = "format-patch"
                    /\ cmds[j + 2].hash # cmds[j].hash
    /\ \A j \in 1..Len(cmds) :
          cmds[j].op = "abort" =>
              /\ j > 1
              /\ cmds[j].repo = "target"
              /\ cmds[j - 1].op \in StepOps
              /\ results[j - 1].status = "throw"
    /\ \A i, j \in 1..Len(cmds) :
          (i < j /\ cmds[i].op = cmds[j].op /\ cmds[i].op \in {"format-patch", "am"}) =>
              cmds[i].hash # cmds[j].hash

C6_Witness ==
    \E j \in 1..Len(results) :
        /\ cmds[j].op = "clean"
        /\ results[j].status = "throw"
        /\ j + 2 <= Len(cmds)
        /\ cmds[j + 2].op = "format-patch"

\* C7 (as claimed): an am call carries an author override exactly when both
\* an author name and an author email were supplied.
C7_AuthorPairAsClaimed ==
    \A j \in 1..Len(cmds) :
        cmds[j].op = "am" =>
            (cmds[j].author # NoValue <=>
                (input.author # Undefined /\ input.email # Undefined))

\* C7 (amended): an am call carries an author override exactly when both an
\* author name and an author email were supplied and neither is the empty
\* string, and the override is then that name and email; otherwise no am
\* call carries one.
C7_AuthorPair ==
    \A j \in 1..Len(cmds) :
        cmds[j].op = "am" =>
            /\ cmds[j].author # NoValue <=> (Truthy(input.author) /\ Truthy(input.email))
            /\ cmds[j].author # NoValue => cmds[j].author = <<input.author, input.email>>

C7_Witness ==
    /\ \E j \in 1..Len(results) : cmds[j].op = "am" /\ cmds[j].author = <<"Ann", "ann@x">>
    /\ entry = "cli"

\* C8: the run issues the same calls, with the same arguments and
\* environment, as the run that differs from it only in having no committer
\* name and email; no call is given the committer environment map.
C8_CommitterInert ==
    /\ cmds = cmds2
    /\ \A j \in 1..Len(cmds) : cmds[j].env = NoValue

C8_Witness ==
    /\ env = <<"Cy", "cy@x">>
    /\ \E j \in 1..Len(results) : cmds[j].op = "am"

\* C9: a success line names the override author exactly when the am call of
\* that commit carried the author override, and the override committer
\* exactly when that am call ran with a committer override.
C9_SuccessLineEffective ==
    \A l \in 1..Len(out) :
        out[l].kind = "success" =>
            \E j \in 1..Len(results) :
                /\ cmds[j].op = "am"
                /\ cmds[j].hash = out[l].hash
                /\ results[j].status = "ok"
                /\ out[l].author[1] = "new author" <=> cmds[j].author # NoValue
                /\ out[l].committer[1] = "new committer" <=> cmds[j].env # NoValue

\* C10: the replay is sequential and in order: at most one call is
\* outstanding, am follows a successful format-patch of the same commit and
\* clean a successful am, the patches are generated in the order of
\* getCommits, and the loop ends after one iteration per commit.
C10_SequentialInOrder ==
    /\ Cardinality(inflight) <= 1
    /\ \A j \in 1..Len(cmds) :
          /\ cmds[j].op = "am" =>
                /\ cmds[j - 1].op = "format-patch"
                /\ cmds[j - 1].hash = cmds[j].hash
                /\ results[j - 1].status = "ok"
          /\ cmds[j].op = "clean" =>
                /\ cmds[j - 1].op = "am"
                /\ cmds[j - 1].hash = cmds[j].hash
                /\ results[j - 1].status = "ok"
    /\ Len(FormatPatches) <= Len(commits)
    /\ \A i \in 1..Len(FormatPatches) : FormatPatches[i].hash = commits[i].hash
    /\ (pc = "exited" /\ k >= 1) => Len(FormatPatches) = Len(commits)

====
